---- MODULE Spec2Model ----
(***************************************************************************)
(* A model of the App component of ham-radio-compass                       *)
(* (src/eslint.config.js, lines 31-192): the magnetometer effect with      *)
(* calculateHeading and getDirection, and the location effect with         *)
(* startWatching, the position callback and latLonToMaiden8.               *)
(*                                                                         *)
(* Numbers.  A magnetometer sample is a pair of integers (z is never       *)
(* read).  An angle is kept as the floor of twice its value in degrees,    *)
(* which is exact for everything the code does with it: the test           *)
(* angle >= 0, the addition of 360 and Math.round.  A coordinate is an     *)
(* integer number of 1/Scale degrees, and latLonToMaiden8 is computed on   *)
(* it in exact arithmetic.                                                 *)
(***************************************************************************)
EXTENDS Integers, Sequences, FiniteSets

VARIABLES
    mounted,       \* the component is mounted: no effect cleanup has run
    magnetometer,  \* the subscription sub of line 47: "active" or "removed"
    heading,       \* useState(0), line 37
    direction,     \* the text rendered from getDirection(heading), line 154
    pc,            \* where startWatching stands: "awaitPermission", "awaitWatch", "done"
    watcher,       \* the variable watcher of line 56: NULL or <<"subscription">>
    subscription,  \* the location subscription: "none", "active" or "removed"
    location,      \* useState(null), line 38: NULL or <<latitude, longitude>>
    gridLocator,   \* useState(null), line 40: NULL or a string
    lastUpdate,    \* useState(null), line 41: NULL or <<timestamp>>
    updateTime,    \* useState(null), line 42: NULL or <<milliseconds>>
    locationError, \* useState(null), line 43: NULL or <<message>>
    angle,         \* an argument of getDirection
    label          \* the value getDirection returned for angle, "pending" before the call

compassVars == <<magnetometer, heading, direction>>
locationVars ==
    <<pc, watcher, subscription, location, gridLocator, lastUpdate, updateTime,
      locationError>>
directionVars == <<angle, label>>
vars == <<mounted, compassVars, locationVars, directionVars>>

\* null.  A string is a sequence of one-character strings, and a value that
\* may be null is NULL or a non-empty sequence.
NULL == <<>>

----------------------------------------------------------------------------
(* Bounds *)

\* magnitude of the horizontal field, in sensor units
MaxField == 120
\* |x|, |y| <= SmallField are samples too
SmallField == 2
\* the arguments of getDirection are 0 .. MaxAngle
MaxAngle == 359
\* the longitudes LonMin + k * LonStep, k in 0 .. MaxLonSteps, are delivered
MaxLonSteps == 8
\* the latitudes LatMin + k * LatStep, k in 0 .. MaxLatSteps, are delivered
MaxLatSteps == 6
\* pos.timestamp is in 0 .. MaxTimestamp
MaxTimestamp == 1
\* Date.now() - t0 is in 0 .. MaxElapsed
MaxElapsed == 0

----------------------------------------------------------------------------
(* Math.atan2, in half degrees *)

\* 10^7: the scale of the tangent table
TanScale == 10000000

\* Tan[j] = round(TanScale * tan(j/2 degrees)), j = 1 .. 90
Tan ==
  <<87269, 174551, 261859, 349208, 436609, 524078,
    611626, 699268, 787017, 874887, 962890, 1051042,
    1139356, 1227846, 1316525, 1405408, 1494510, 1583844,
    1673426, 1763270, 1853390, 1943803, 2034523, 2125566,
    2216947, 2308682, 2400788, 2493280, 2586176, 2679492,
    2773245, 2867454, 2962135, 3057307, 3152988, 3249197,
    3345953, 3443276, 3541186, 3639702, 3738847, 3838640,
    3939105, 4040262, 4142136, 4244748, 4348124, 4452287,
    4557263, 4663077, 4769755, 4877326, 4985816, 5095254,
    5205671, 5317094, 5429557, 5543091, 5657728, 5773503,
    5890450, 6008606, 6128008, 6248694, 6370703, 6494076,
    6618856, 6745085, 6872810, 7002075, 7132931, 7265425,
    7399611, 7535541, 7673270, 7812856, 7954359, 8097840,
    8243364, 8390996, 8540807, 8692867, 8847253, 9004040,
    9163312, 9325151, 9489646, 9656888, 9826973, 10000000>>

Abs(n) == IF n < 0 THEN -n ELSE n

\* atan(ay / ax) >= j/2 degrees, for ax > 0, ay > 0 and j in 1 .. 179
\* (above 45 degrees the cotangent is compared, which is tan(90 - j/2))
ReachesHalfDeg(ay, ax, j) ==
    IF j <= 90 THEN ay * TanScale >= ax * Tan[j]
               ELSE ay * Tan[180 - j] >= ax * TanScale

\* the largest j in lo .. hi with j = lo or ReachesHalfDeg(ay, ax, j)
RECURSIVE SearchHalfDeg(_, _, _, _)
SearchHalfDeg(ay, ax, lo, hi) ==
    IF lo >= hi THEN lo
    ELSE LET mid == (lo + hi + 1) \div 2
         IN  IF ReachesHalfDeg(ay, ax, mid)
             THEN SearchHalfDeg(ay, ax, mid, hi)
             ELSE SearchHalfDeg(ay, ax, lo, mid - 1)

\* floor(2 * atan(ay / ax) in degrees), for ax > 0, ay > 0
AtanHalfDeg(ay, ax) == SearchHalfDeg(ay, ax, 0, 179)

\* floor(2 * Math.atan2(Y, X) in degrees) for Y > 0: an angle in (0, 180)
Atan2UpperHalfDeg(Y, X) ==
    IF X > 0 THEN AtanHalfDeg(Y, X)
    ELSE IF X = 0 THEN 180
    ELSE IF Y = -X THEN 270
    ELSE 360 - (AtanHalfDeg(Y, -X) + 1)

\* 2 * Math.atan2(Y, X) in degrees is an integer (the angle is 45, 90 or 135)
Atan2IsHalfDeg(Y, X) == X = 0 \/ Abs(X) = Abs(Y)

\* floor(2 * Math.atan2(Y, X) * (180 / Math.PI)), where Y is -y.
\* For y = 0 the argument -y is -0: Math.atan2(-0, x) is -0 for x >= 0 and
\* -PI for x < 0.
Atan2HalfDeg(Y, X) ==
    IF Y = 0 THEN (IF X < 0 THEN -360 ELSE 0)
    ELSE IF Y > 0 THEN Atan2UpperHalfDeg(Y, X)
    ELSE IF Atan2IsHalfDeg(Y, X) THEN -Atan2UpperHalfDeg(-Y, X)
    ELSE -(Atan2UpperHalfDeg(-Y, X) + 1)

\* Math.round of an angle given as the floor of its double: floor(a + 1/2)
MathRoundHalfDeg(h) == (h + 1) \div 2

----------------------------------------------------------------------------
(* calculateHeading, lines 96-105 *)

calculateHeading(d) ==
    LET x == d[1]
        y == d[2]
        raw == Atan2HalfDeg(-y, x)
        normalized == IF raw >= 0 THEN raw ELSE 720 + raw
    IN  MathRoundHalfDeg(normalized)

----------------------------------------------------------------------------
(* getDirection, lines 107-117 *)

Labels == {"N", "NE", "E", "SE", "S", "SW", "W", "NW"}

\* Sector with the first condition written deg > 337: 337 falls in no sector
SectorGapAt337(l, deg) ==
    CASE l = "N"  -> deg > 337 \/ deg <= 22
      [] l = "NE" -> deg > 22 /\ deg <= 67
      [] l = "E"  -> deg > 67 /\ deg <= 112
      [] l = "SE" -> deg > 112 /\ deg <= 157
      [] l = "S"  -> deg > 157 /\ deg <= 202
      [] l = "SW" -> deg > 202 /\ deg <= 247
      [] l = "W"  -> deg > 247 /\ deg <= 292
      [] l = "NW" -> deg > 292 /\ deg < 337

\* the condition of the if statement that returns label l
Sector(l, deg) ==
    CASE l = "N"  -> deg >= 337 \/ deg <= 22
      [] l = "NE" -> deg > 22 /\ deg <= 67
      [] l = "E"  -> deg > 67 /\ deg <= 112
      [] l = "SE" -> deg > 112 /\ deg <= 157
      [] l = "S"  -> deg > 157 /\ deg <= 202
      [] l = "SW" -> deg > 202 /\ deg <= 247
      [] l = "W"  -> deg > 247 /\ deg <= 292
      [] l = "NW" -> deg > 292 /\ deg < 337

\* getDirection with the first condition closed at 359: (angle >= 337 && angle <= 359) || angle <= 22
getDirectionClosedAt359(deg) ==
    IF (deg >= 337 /\ deg <= 359) \/ deg <= 22 THEN "N"
    ELSE IF Sector("NE", deg) THEN "NE"
    ELSE IF Sector("E", deg) THEN "E"
    ELSE IF Sector("SE", deg) THEN "SE"
    ELSE IF Sector("S", deg) THEN "S"
    ELSE IF Sector("SW", deg) THEN "SW"
    ELSE IF Sector("W", deg) THEN "W"
    ELSE IF Sector("NW", deg) THEN "NW"
    ELSE ""

getDirection(deg) ==
    IF Sector("N", deg) THEN "N"
    ELSE IF Sector("NE", deg) THEN "NE"
    ELSE IF Sector("E", deg) THEN "E"
    ELSE IF Sector("SE", deg) THEN "SE"
    ELSE IF Sector("S", deg) THEN "S"
    ELSE IF Sector("SW", deg) THEN "SW"
    ELSE IF Sector("W", deg) THEN "W"
    ELSE IF Sector("NW", deg) THEN "NW"
    ELSE ""


----------------------------------------------------------------------------
(* Strings *)

\* s[i] of JavaScript for a string s and an index i >= 0; an index past the
\* end gives undefined, which + turns into the text "undefined"
CharAt(s, i) ==
    IF i < Len(s) THEN <<s[i + 1]>>
    ELSE <<"u", "n", "d", "e", "f", "i", "n", "e", "d">>

DecimalDigits == <<"0", "1", "2", "3", "4", "5", "6", "7", "8", "9">>

\* n.toString() for an integer n >= 0
RECURSIVE toString(_)
toString(n) ==
    IF n < 10 THEN <<DecimalDigits[n + 1]>>
    ELSE toString(n \div 10) \o <<DecimalDigits[(n % 10) + 1]>>

\* s.slice(from, to) for 0 <= from <= to
slice(s, from, to) ==
    SubSeq(s, from + 1, IF to < Len(s) THEN to ELSE Len(s))

----------------------------------------------------------------------------
(* latLonToMaiden8, lines 120-149 *)

\* a coordinate is an integer number of 1/Scale degrees
Scale == 18000

A == <<"A", "B", "C", "D", "E", "F", "G", "H", "I", "J", "K", "L", "M",
       "N", "O", "P", "Q", "R", "S", "T", "U", "V", "W", "X", "Y", "Z">>
a == <<"a", "b", "c", "d", "e", "f", "g", "h", "i", "j", "k", "l", "m",
       "n", "o", "p", "q", "r", "s", "t", "u", "v", "w", "x", "y", "z">>

\* The operators below take lon and lat after lines 121-122 (lon += 180,
\* lat += 90), so their arguments are >= 0.

\* Math.floor(lon / 20)
lonField(lon) == lon \div (20 * Scale)
\* Math.floor(lat / 10)
latField(lat) == lat \div (10 * Scale)

\* lonSquare without the division by 2: Math.floor(lon % 20)
lonSquareNotHalved(lon) == (lon % (20 * Scale)) \div Scale

\* Math.floor((lon % 20) / 2)
lonSquare(lon) == (lon % (20 * Scale)) \div (2 * Scale)
\* Math.floor((lat % 10) / 1)
latSquare(lat) == (lat % (10 * Scale)) \div Scale

\* Math.floor(((lon % 2) / 2) * 24)
lonSub(lon) == ((lon % (2 * Scale)) * 12) \div Scale
\* Math.floor((lat % 1) * 24)
latSub(lat) == ((lat % Scale) * 24) \div Scale

\* Math.floor((((lon * 60) % 2) * 60) / 5)
lonExt(lon) == (((lon * 60) % (2 * Scale)) * 12) \div Scale
\* Math.floor((((lat * 60) % 2.5) * 60) / 5)
latExt(lat) == (((lat * 60) % ((5 * Scale) \div 2)) * 12) \div Scale

latLonToMaiden8(latitude, longitude) ==
    LET lon == longitude + 180 * Scale
        lat == latitude + 90 * Scale
    IN  CharAt(A, lonField(lon)) \o
        CharAt(A, latField(lat)) \o
        toString(lonSquare(lon)) \o
        toString(latSquare(lat)) \o
        CharAt(a, lonSub(lon)) \o
        CharAt(a, latSub(lat)) \o
        toString(lonExt(lon)) \o
        toString(latExt(lat))

\* String.prototype.toUpperCase and toLowerCase
UpperChar(c) ==
    IF \E i \in 1 .. 26 : a[i] = c THEN A[CHOOSE i \in 1 .. 26 : a[i] = c] ELSE c
LowerChar(c) ==
    IF \E i \in 1 .. 26 : A[i] = c THEN a[CHOOSE i \in 1 .. 26 : A[i] = c] ELSE c
toUpperCase(s) == [i \in 1 .. Len(s) |-> UpperChar(s[i])]
toLowerCase(s) == [i \in 1 .. Len(s) |-> LowerChar(s[i])]

\* formatted, lines 76-80
Formatted(maiden) ==
    toUpperCase(slice(maiden, 0, 2)) \o
    slice(maiden, 2, 4) \o
    toLowerCase(slice(maiden, 4, 6)) \o
    slice(maiden, 6, 8)

----------------------------------------------------------------------------
(* The coordinates the location provider delivers *)

LatMin == -90 * Scale
LatMax == 90 * Scale
LonMin == -180 * Scale
LonMax == 180 * Scale

\* 45 seconds of arc
LonStep == Scale \div 80
\* 30 seconds of arc
LatStep == Scale \div 120

\* the Royal Observatory, Greenwich: 51.4780, -0.0015
GreenwichLat == (51478 * Scale) \div 1000
GreenwichLon == (-15 * Scale) \div 10000

\* Berlin: 52.5, 13.4
BerlinLat == (525 * Scale) \div 10
BerlinLon == (134 * Scale) \div 10

Latitudes ==
    {LatMin + k * LatStep : k \in 0 .. MaxLatSteps}
        \cup {GreenwichLat, BerlinLat, LatMax}
Longitudes ==
    {LonMin + k * LonStep : k \in 0 .. MaxLonSteps}
        \cup {GreenwichLon, BerlinLon, LonMax}

Timestamps == 0 .. MaxTimestamp
ElapsedTimes == 0 .. MaxElapsed

----------------------------------------------------------------------------
(* The component after it has mounted: both effects have run, the          *)
(* magnetometer listener is added, and startWatching waits for             *)
(* requestForegroundPermissionsAsync (line 59)                             *)

Init ==
    /\ mounted = TRUE
    /\ magnetometer = "active"
    /\ heading = 0
    /\ direction = getDirection(0)
    /\ pc = "awaitPermission"
    /\ watcher = NULL
    /\ subscription = "none"
    /\ location = NULL
    /\ gridLocator = NULL
    /\ lastUpdate = NULL
    /\ updateTime = NULL
    /\ locationError = NULL
    /\ angle = 0
    /\ label = "pending"

----------------------------------------------------------------------------
(* The magnetometer effect, lines 46-52, and the render of lines 153-154 *)

Components == -MaxField .. MaxField

Samples ==
    {d \in Components \X Components :
        LET m == d[1] * d[1] + d[2] * d[2]
        IN  \/ /\ m >= (MaxField - 1) * (MaxField - 1)
               /\ m <= MaxField * MaxField
            \/ Abs(d[1]) <= SmallField /\ Abs(d[2]) <= SmallField}

\* the listener of line 47, followed by the render
MagnetometerListener ==
    /\ magnetometer = "active"
    /\ \E d \in Samples :
        /\ heading' = calculateHeading(d)
        /\ direction' = getDirection(heading')
    /\ UNCHANGED <<mounted, magnetometer, locationVars, directionVars>>

----------------------------------------------------------------------------
(* The location effect, lines 55-94 *)

\* line 59 resolves with a status other than 'granted': lines 60-63
PermissionDenied ==
    /\ pc = "awaitPermission"
    /\ locationError' =
           <<"Permission to access location was denied">>
    /\ pc' = "done"
    /\ UNCHANGED <<mounted, compassVars, watcher, subscription, location,
                   gridLocator, lastUpdate, updateTime, directionVars>>

\* line 59 resolves with 'granted': watchPositionAsync is called, line 65
PermissionGranted ==
    /\ pc = "awaitPermission"
    /\ pc' = "awaitWatch"
    /\ UNCHANGED <<mounted, compassVars, watcher, subscription, location,
                   gridLocator, lastUpdate, updateTime, locationError,
                   directionVars>>

\* watchPositionAsync resolves with the subscription, which line 65 assigns
\* to watcher; startWatching returns
WatchPositionResolves ==
    /\ pc = "awaitWatch"
    /\ subscription' = "active"
    /\ watcher' = <<"subscription">>
    /\ pc' = "done"
    /\ UNCHANGED <<mounted, compassVars, location, gridLocator, lastUpdate,
                   updateTime, locationError, directionVars>>

\* the position callback, lines 71-86
PositionCallback ==
    /\ subscription = "active"
    /\ \E latitude \in Latitudes, longitude \in Longitudes,
          timestamp \in Timestamps, elapsed \in ElapsedTimes :
        LET maiden == latLonToMaiden8(latitude, longitude)
        IN  /\ location' = <<latitude, longitude>>
            /\ gridLocator' = Formatted(maiden)
            /\ lastUpdate' = <<timestamp>>
            /\ updateTime' = <<elapsed>>
    /\ UNCHANGED <<mounted, compassVars, pc, watcher, subscription,
                   locationError, directionVars>>

\* the component unmounts: the cleanups of lines 51 and 91-93 run
Unmount ==
    /\ mounted
    /\ mounted' = FALSE
    /\ magnetometer' = "removed"
    /\ subscription' = IF watcher # NULL THEN "removed" ELSE subscription
    /\ UNCHANGED <<heading, direction, pc, watcher, location, gridLocator,
                   lastUpdate, updateTime, locationError, directionVars>>

----------------------------------------------------------------------------
(* getDirection as a function of its argument *)

InitDirection ==
    /\ mounted = TRUE
    /\ magnetometer = "active"
    /\ heading = 0
    /\ direction = getDirection(0)
    /\ pc = "awaitPermission"
    /\ watcher = NULL
    /\ subscription = "none"
    /\ location = NULL
    /\ gridLocator = NULL
    /\ lastUpdate = NULL
    /\ updateTime = NULL
    /\ locationError = NULL
    /\ angle \in 0 .. MaxAngle
    /\ label = "pending"

CallGetDirection ==
    /\ label = "pending"
    /\ label' = getDirection(angle)
    /\ UNCHANGED <<mounted, compassVars, locationVars, angle>>

----------------------------------------------------------------------------
(* Specifications.  The two effects share no state but mounted, so each is *)
(* checked with the other one idle.                                        *)

NextCompass == MagnetometerListener \/ Unmount
SpecCompass == Init /\ [][NextCompass]_vars

NextLocation ==
    \/ PermissionDenied
    \/ PermissionGranted
    \/ WatchPositionResolves
    \/ PositionCallback
    \/ Unmount
SpecLocation == Init /\ [][NextLocation]_vars

NextDirection == CallGetDirection
SpecDirection == InitDirection /\ [][NextDirection]_vars

Next == NextCompass \/ NextLocation
Spec == Init /\ [][Next]_vars

----------------------------------------------------------------------------
(* The heading and the direction label *)

\* C1: every heading calculateHeading returns is an integer in 0 .. 359; an
\* angle in [359.5, 360) is wrapped to 0 and never returned as 360.
C1_HeadingInRange == heading \in 0 .. 359

\* the sector conditions that hold for the angle
SectorsOf(deg) == {l \in Labels : Sector(l, deg)}

\* C3: for every integer heading in 0 .. 359 getDirection returns one of the
\* eight labels, never the empty string, and exactly one sector condition
\* holds for it (no gap, no overlap).
C3_ExactlyOneLabel ==
    (label # "pending" /\ angle \in 0 .. 359) =>
        /\ label \in Labels
        /\ SectorsOf(angle) = {label}

\* the boundary 337 has been given its label
C3_Witness == angle = 337 /\ label = "N"

\* C7: each of the eight labels is returned for exactly 45 of the headings
\* 0 .. 359.
C7_SectorsAre45Wide ==
    label \in Labels =>
        Cardinality({deg \in 0 .. 359 : getDirection(deg) = label}) = 45

\* C9: in every state of the component the rendered direction is one of the
\* eight labels, never the empty string, also for a heading outside 0 .. 359.
C9_DirectionNeverEmpty ==
    /\ direction = getDirection(heading)
    /\ direction \in Labels

\* the heading 360 has been rendered
C9_Witness == heading = 360 /\ direction = "N"

----------------------------------------------------------------------------
(* The grid locator *)

\* what latLonToMaiden8 returned for the position in location
Maiden == latLonToMaiden8(location[1], location[2])
\* the position after lines 121-122
ShiftedLon == location[2] + 180 * Scale
ShiftedLat == location[1] + 90 * Scale

UpperCaseLetters == {A[i] : i \in 1 .. 26}
LowerCaseLetters == {a[i] : i \in 1 .. 26}
Digits == {DecimalDigits[i] : i \in 1 .. 10}

\* C2: for every latitude in [-90, 90] and longitude in [-180, 180] the
\* locator has exactly 8 characters: 2 upper-case letters, 2 digits, 2
\* lower-case letters, 2 digits.
C2_EightCharacters ==
    location # NULL =>
        /\ Len(Maiden) = 8
        /\ {Maiden[1], Maiden[2]} \subseteq UpperCaseLetters
        /\ {Maiden[3], Maiden[4]} \subseteq Digits
        /\ {Maiden[5], Maiden[6]} \subseteq LowerCaseLetters
        /\ {Maiden[7], Maiden[8]} \subseteq Digits

\* the Maidenhead field and square of a position, from their definition: the
\* field is the band of 20 degrees of longitude (10 of latitude) counted
\* from -180 (-90) that holds the position, the square the band of 2 degrees
\* (1 degree) inside the field
StandardLonField == CHOOSE f \in 0 .. 17 :
    /\ f * 20 * Scale <= ShiftedLon
    /\ ShiftedLon < (f + 1) * 20 * Scale
StandardLatField == CHOOSE f \in 0 .. 17 :
    /\ f * 10 * Scale <= ShiftedLat
    /\ ShiftedLat < (f + 1) * 10 * Scale
StandardLonSquare == CHOOSE q \in 0 .. 9 :
    /\ (StandardLonField * 20 + q * 2) * Scale <= ShiftedLon
    /\ ShiftedLon < (StandardLonField * 20 + q * 2 + 2) * Scale
StandardLatSquare == CHOOSE q \in 0 .. 9 :
    /\ (StandardLatField * 10 + q) * Scale <= ShiftedLat
    /\ ShiftedLat < (StandardLatField * 10 + q + 1) * Scale

\* C4: for a latitude in [-90, 90) and a longitude in [-180, 180) the first
\* four characters of the locator are the standard Maidenhead field and
\* square; for 51.4780, -0.0015 they are IO91.
C4_FieldAndSquare ==
    /\ (/\ location # NULL
        /\ location[1] >= LatMin /\ location[1] < LatMax
        /\ location[2] >= LonMin /\ location[2] < LonMax) =>
            /\ Len(Maiden) >= 4
            /\ SubSeq(Maiden, 1, 4) =
                   <<A[StandardLonField + 1], A[StandardLatField + 1],
                     DecimalDigits[StandardLonSquare + 1],
                     DecimalDigits[StandardLatSquare + 1]>>
            /\ SubSeq(gridLocator, 1, 4) = SubSeq(Maiden, 1, 4)
    /\ location = <<GreenwichLat, GreenwichLon>> =>
            SubSeq(Maiden, 1, 4) = <<"I", "O", "9", "1">>

\* the position callback has stored the locator of Greenwich
C4_Witness ==
    /\ location = <<GreenwichLat, GreenwichLon>>
    /\ SubSeq(gridLocator, 1, 4) = <<"I", "O", "9", "1">>

\* C5: for every latitude in [-90, 90] and longitude in [-180, 180], both
\* inclusive, 0 <= lon + 180 < 360 and 0 <= lat + 90 < 180, lonField and
\* latField are in 0 .. 17 and the two field characters are in A .. R.
C5_FieldsInRange ==
    location # NULL =>
        /\ 0 <= ShiftedLon /\ ShiftedLon < 360 * Scale
        /\ 0 <= ShiftedLat /\ ShiftedLat < 180 * Scale
        /\ lonField(ShiftedLon) \in 0 .. 17
        /\ latField(ShiftedLat) \in 0 .. 17
        /\ {Maiden[1], Maiden[2]} \subseteq {A[i] : i \in 1 .. 18}

\* C6: for every longitude in [-180, 180] lonExt is in 0 .. 9, a single
\* decimal digit.
C6_LonExtIsDigit ==
    location # NULL => lonExt(ShiftedLon) \in 0 .. 9

\* C8: of two positions whose locators share their first six characters,
\* at the same latitude the one with the larger longitude never has the
\* smaller lonExt, and at the same longitude the one with the larger
\* latitude never has the smaller latExt.
C8_ExtendedSquareSubdivides ==
    [][(/\ location # NULL
        /\ location' # NULL
        /\ SubSeq(Maiden, 1, 6) = SubSeq(Maiden', 1, 6)) =>
            /\ (location'[1] = location[1] /\ location'[2] > location[2]) =>
                   lonExt(ShiftedLon') >= lonExt(ShiftedLon)
            /\ (location'[2] = location[2] /\ location'[1] > location[1]) =>
                   latExt(ShiftedLat') >= latExt(ShiftedLat)]_vars

----------------------------------------------------------------------------
(* The location subscription *)

\* C10: once the component is unmounted and startWatching has finished, no
\* location subscription is active.
C10_NoSubscriptionAfterUnmount ==
    (~mounted /\ pc = "done") => subscription # "active"

====
